---- MODULE Spec2Model ----
(***************************************************************************)
(* State-machine model of the NEP17 token contract of src/NEP17.py: the    *)
(* contract storage (balances, total supply, minting gate), the operations *)
(* transfer, mint, burn, finishMinting and _deploy, the queries balanceOf  *)
(* and totalSupply, the notifications of the running invocation and the    *)
(* onNEP17Payment callback of a recipient contract, which may return,      *)
(* abort or call back into the token. Spec follows the contract from its   *)
(* creation; SpecRedeploy adds a second invocation of _deploy by the host. *)
(***************************************************************************)
EXTENDS Integers, Sequences, FiniteSets, TLC

\* ------------------------------------------------------------------ bounds
MaxSupply == 2     \* mint is not taken beyond this total supply
MaxAmount == 2     \* amounts passed to the operations range over -1..MaxAmount
MaxGenesis == 1    \* genesis amounts range over 0..MaxGenesis
MaxHolders == 2    \* number of entries of the genesis table
MaxDepth == 1      \* number of operations suspended in a payment callback
MaxCalls == 1      \* calls one payment callback makes back into the token
MaxDeploys == 2    \* invocations of _deploy by the host, the creation included

\* --------------------------------------------------------------- addresses
OWNER == "owner"
Self == "token"                       \* the executing contract's own hash
Addresses == {"owner", "dapp", "token"}
Contracts == {"dapp", "token"}        \* addresses get_contract resolves
BadAddress == "short"                 \* a value that is not 20 bytes long
AnyAddress == Addresses \cup {BadAddress}
Entry == "entry"                      \* the transaction's entry script
Callers == (Contracts \ {Self}) \cup {Entry}
None == "None"
Amounts == (0 - 1)..MaxAmount

len(a) == IF a \in Addresses THEN 20 ELSE 19

TOTAL_SUPPLY == "total_supply"
CONTINUE_MINTING == "continue_minting"

\* ----------------------------------------------------------------- storage
\* Stored values are byte strings: the integer 0 is the empty string, a
\* missing key reads as the empty string, False is the one-byte string 0.
IntToBytes(n) == IF n = 0 THEN <<>> ELSE <<n>>
BoolToBytes(b) == IF b THEN <<1>> ELSE <<0>>
to_int(b) == IF b = <<>> THEN 0 ELSE b[1]
to_bool(b) == b # <<>> /\ b[1] # 0

get(s, key) == IF key \in DOMAIN s THEN s[key] ELSE <<>>
put(s, key, value) == [k \in DOMAIN s \cup {key} |-> IF k = key THEN value ELSE s[k]]
delete(s, key) == [k \in DOMAIN s \ {key} |-> s[k]]

totalSupply(s) == to_int(get(s, TOTAL_SUPPLY))
balanceOf(s, account) == to_int(get(s, account))

check_witness(hash, caller, signed) == hash = caller \/ signed

\* ------------------------------------------------------------------ deploy
HolderEntries == Addresses \X (0..MaxGenesis)
RECURSIVE DistinctKeys(_)
DistinctKeys(h) ==
    IF h = <<>> THEN TRUE
    ELSE /\ \A i \in 2..Len(h) : h[i][1] # h[1][1]
         /\ DistinctKeys(Tail(h))
HolderTables ==
    UNION {{h \in [1..n -> HolderEntries] : DistinctKeys(h)} : n \in 0..MaxHolders}

RECURSIVE deploy_holders(_, _)
\* the loop of _deploy over HOLDERS.keys(): [storage, events, total_supply]
deploy_holders(holders, acc) ==
    IF holders = <<>> THEN acc
    ELSE LET holder == holders[1][1]
             amount == holders[1][2]
         IN deploy_holders(Tail(holders),
                [storage |-> put(acc.storage, holder, IntToBytes(amount)),
                 events |-> Append(acc.events, <<None, holder, amount>>),
                 total_supply |-> acc.total_supply + amount])

\* _deploy storing True for CONTINUE_MINTING instead of the template's value
_deploy_gate_open(s, holders, continue_minting) ==
    LET r == deploy_holders(holders, [storage |-> s, events |-> <<>>, total_supply |-> 0])
        s1 == put(r.storage, CONTINUE_MINTING, BoolToBytes(TRUE))
    IN [storage |-> put(s1, TOTAL_SUPPLY, IntToBytes(r.total_supply)),
        events |-> r.events]

_deploy(s, holders, continue_minting) ==
    LET r == deploy_holders(holders, [storage |-> s, events |-> <<>>, total_supply |-> 0])
        s1 == put(r.storage, CONTINUE_MINTING, BoolToBytes(continue_minting))
    IN [storage |-> put(s1, TOTAL_SUPPLY, IntToBytes(r.total_supply)),
        events |-> r.events]

\* -------------------------------------------------------------- operations
\* Each operation is a function of the storage and its inputs to an outcome:
\* result is "abort" (a failed assert or abort()), "false", "true" or "none"
\* (a method without return value ran to its end); storage and events are the
\* writes and notifications made up to the call of post_transfer; callee is
\* the contract whose onNEP17Payment post_transfer calls, or None.
Outcome(result, s, events, callee) ==
    [result |-> result, storage |-> s, events |-> events, callee |-> callee]

get_contract(hash) == IF hash \in Contracts THEN hash ELSE None

post_transfer(to_address) ==
    IF to_address # None
    THEN IF get_contract(to_address) # None THEN to_address ELSE None
    ELSE None

\* transfer's writes without the debit of from_address
transfer_storage_no_debit(s, from_address, to_address, amount) ==
    IF from_address # to_address /\ amount # 0
    THEN put(s, to_address, IntToBytes(to_int(get(s, to_address)) + amount))
    ELSE s

\* transfer's writes without the from_address # to_address test, crediting the
\* balance of to_address read before the debit
transfer_storage_self(s, from_address, to_address, amount) ==
    LET from_balance == to_int(get(s, from_address))
        to_balance == to_int(get(s, to_address))
    IN IF amount # 0
       THEN LET s1 == IF from_balance = amount
                      THEN delete(s, from_address)
                      ELSE put(s, from_address, IntToBytes(from_balance - amount))
            IN put(s1, to_address, IntToBytes(to_balance + amount))
       ELSE s

\* transfer's writes without the amount # 0 test
transfer_storage_zero(s, from_address, to_address, amount) ==
    LET from_balance == to_int(get(s, from_address))
    IN IF from_address # to_address
       THEN LET s1 == IF from_balance = amount
                      THEN delete(s, from_address)
                      ELSE put(s, from_address, IntToBytes(from_balance - amount))
                to_balance == to_int(get(s1, to_address))
            IN put(s1, to_address, IntToBytes(to_balance + amount))
       ELSE s

transfer_storage(s, from_address, to_address, amount) ==
    LET from_balance == to_int(get(s, from_address))
    IN IF from_address # to_address /\ amount # 0
       THEN LET s1 == IF from_balance = amount
                      THEN delete(s, from_address)
                      ELSE put(s, from_address, IntToBytes(from_balance - amount))
                to_balance == to_int(get(s1, to_address))
            IN put(s1, to_address, IntToBytes(to_balance + amount))
       ELSE s

\* transfer without the check_witness test
transfer_no_witness(s, from_address, to_address, amount, caller, signed) ==
    IF ~(len(from_address) = 20 /\ len(to_address) = 20) THEN Outcome("abort", s, <<>>, None)
    ELSE IF ~(amount >= 0) THEN Outcome("abort", s, <<>>, None)
    ELSE IF to_int(get(s, from_address)) < amount THEN Outcome("false", s, <<>>, None)
    ELSE Outcome("true",
                 transfer_storage(s, from_address, to_address, amount),
                 << <<from_address, to_address, amount>> >>,
                 post_transfer(to_address))

\* transfer notifying only when it changed balances
transfer_silent_skip(s, from_address, to_address, amount, caller, signed) ==
    IF ~(len(from_address) = 20 /\ len(to_address) = 20) THEN Outcome("abort", s, <<>>, None)
    ELSE IF ~(amount >= 0) THEN Outcome("abort", s, <<>>, None)
    ELSE IF to_int(get(s, from_address)) < amount THEN Outcome("false", s, <<>>, None)
    ELSE IF from_address # caller /\ ~check_witness(from_address, caller, signed)
         THEN Outcome("false", s, <<>>, None)
    ELSE Outcome("true",
                 transfer_storage(s, from_address, to_address, amount),
                 IF from_address # to_address /\ amount # 0
                 THEN << <<from_address, to_address, amount>> >> ELSE <<>>,
                 post_transfer(to_address))

transfer(s, from_address, to_address, amount, caller, signed) ==
    IF ~(len(from_address) = 20 /\ len(to_address) = 20) THEN Outcome("abort", s, <<>>, None)
    ELSE IF ~(amount >= 0) THEN Outcome("abort", s, <<>>, None)
    ELSE IF to_int(get(s, from_address)) < amount THEN Outcome("false", s, <<>>, None)
    ELSE IF from_address # caller /\ ~check_witness(from_address, caller, signed)
         THEN Outcome("false", s, <<>>, None)
    ELSE Outcome("true",
                 transfer_storage(s, from_address, to_address, amount),
                 << <<from_address, to_address, amount>> >>,
                 post_transfer(to_address))

\* finishMinting storing the flag it read instead of False
finishMinting_no_close(s) ==
    IF ~to_bool(get(s, CONTINUE_MINTING)) THEN Outcome("false", s, <<>>, None)
    ELSE Outcome("true", put(s, CONTINUE_MINTING, get(s, CONTINUE_MINTING)), <<>>, None)

\* finishMinting closing the gate and returning False
finishMinting_returns_false(s) ==
    IF ~to_bool(get(s, CONTINUE_MINTING)) THEN Outcome("false", s, <<>>, None)
    ELSE Outcome("false", put(s, CONTINUE_MINTING, BoolToBytes(FALSE)), <<>>, None)

finishMinting(s) ==
    IF ~to_bool(get(s, CONTINUE_MINTING)) THEN Outcome("false", s, <<>>, None)
    ELSE Outcome("true", put(s, CONTINUE_MINTING, BoolToBytes(FALSE)), <<>>, None)

\* mint's writes without the one to TOTAL_SUPPLY
mint_storage_no_supply(s, account, amount) ==
    put(s, account, IntToBytes(balanceOf(s, account) + amount))

mint_storage(s, account, amount) ==
    LET current_total_supply == totalSupply(s)
        account_balance == balanceOf(s, account)
    IN put(put(s, TOTAL_SUPPLY, IntToBytes(current_total_supply + amount)),
           account, IntToBytes(account_balance + amount))

\* mint without the check_witness(OWNER) test
mint_no_witness(s, account, amount, caller, signed) ==
    LET continue_minting == to_bool(get(s, CONTINUE_MINTING))
    IN IF ~(amount >= 0 /\ continue_minting)
       THEN Outcome("abort", s, <<>>, None)
       ELSE IF amount # 0
       THEN IF len(account) # 20 THEN Outcome("abort", s, <<>>, None)
            ELSE Outcome("none", mint_storage(s, account, amount),
                         << <<None, account, amount>> >>, post_transfer(account))
       ELSE Outcome("none", s, <<>>, None)

mint(s, account, amount, caller, signed) ==
    LET continue_minting == to_bool(get(s, CONTINUE_MINTING))
    IN IF ~(amount >= 0 /\ check_witness(OWNER, caller, signed) /\ continue_minting)
       THEN Outcome("abort", s, <<>>, None)
       ELSE IF amount # 0
       THEN IF len(account) # 20 THEN Outcome("abort", s, <<>>, None)
            ELSE Outcome("none", mint_storage(s, account, amount),
                         << <<None, account, amount>> >>, post_transfer(account))
       ELSE Outcome("none", s, <<>>, None)

\* burn's writes storing the exhausted balance instead of deleting the entry
burn_storage_no_delete(s, account, amount) ==
    LET account_balance == balanceOf(s, account)
        current_total_supply == totalSupply(s)
        s1 == put(s, TOTAL_SUPPLY, IntToBytes(current_total_supply - amount))
    IN put(s1, account, IntToBytes(account_balance - amount))

burn_storage(s, account, amount) ==
    LET account_balance == balanceOf(s, account)
        current_total_supply == totalSupply(s)
        s1 == put(s, TOTAL_SUPPLY, IntToBytes(current_total_supply - amount))
    IN IF account_balance = amount
       THEN delete(s1, account)
       ELSE put(s1, account, IntToBytes(account_balance - amount))

\* burn asserting the balance after the write to TOTAL_SUPPLY
burn_late_assert(s, amount, sender) ==
    IF ~(amount >= 0) THEN Outcome("abort", s, <<>>, None)
    ELSE IF amount # 0
    THEN LET account == sender
         IN IF len(account) # 20 THEN Outcome("abort", s, <<>>, None)
            ELSE IF ~(balanceOf(s, account) >= amount)
                 THEN Outcome("abort",
                              put(s, TOTAL_SUPPLY, IntToBytes(totalSupply(s) - amount)),
                              <<>>, None)
            ELSE Outcome("none", burn_storage(s, account, amount),
                         << <<account, None, amount>> >>, post_transfer(None))
    ELSE Outcome("none", s, <<>>, None)

\* burn debiting OWNER instead of the transaction's sender
burn_from_owner(s, amount, sender) ==
    IF ~(amount >= 0) THEN Outcome("abort", s, <<>>, None)
    ELSE IF amount # 0
    THEN LET account == OWNER
         IN IF len(account) # 20 THEN Outcome("abort", s, <<>>, None)
            ELSE IF ~(balanceOf(s, account) >= amount) THEN Outcome("abort", s, <<>>, None)
            ELSE Outcome("none", burn_storage(s, account, amount),
                         << <<account, None, amount>> >>, post_transfer(None))
    ELSE Outcome("none", s, <<>>, None)

burn(s, amount, sender) ==
    IF ~(amount >= 0) THEN Outcome("abort", s, <<>>, None)
    ELSE IF amount # 0
    THEN LET account == sender
         IN IF len(account) # 20 THEN Outcome("abort", s, <<>>, None)
            ELSE IF ~(balanceOf(s, account) >= amount) THEN Outcome("abort", s, <<>>, None)
            ELSE Outcome("none", burn_storage(s, account, amount),
                         << <<account, None, amount>> >>, post_transfer(None))
    ELSE Outcome("none", s, <<>>, None)

\* an onNEP17Payment that returns, accepting the payment
onNEP17Payment_accepts == "return"

\* what the contract's own onNEP17Payment does when it is the callee
onNEP17Payment == "abort"

\* ------------------------------------------------------------------- state
VARIABLES
    storage,           \* the contract's key/value storage
    notifications,     \* Transfer events of the running (or last) invocation
    stack,             \* operations suspended in post_transfer's call_contract
    snapshot,          \* storage when the running (or last) invocation started
    script_container,  \* the transaction of the running invocation, once read
    contract,          \* the deployed contract: the number of times the host
                       \* has invoked _deploy and, where a later invocation
                       \* is followed, the HOLDERS table and continue_minting
                       \* value of its template
    last               \* the call the last step made or resumed: its arguments,
                       \* result, the storage and notifications it started from,
                       \* the contract whose onNEP17Payment it called, the
                       \* calls that callback made into the token, the value a
                       \* query returned and, for a call that faulted, whether
                       \* it had written or notified by then (dirty)

vars == <<storage, notifications, stack, snapshot, script_container, contract, last>>

NoTransaction == [sender |-> None]

Depth == Len(stack)
\* the notifications of an invocation start empty
RunningNotifications == IF stack = <<>> THEN <<>> ELSE notifications

Call(op, from_address, to_address, amount, auth) ==
    [op |-> op, from |-> from_address, to |-> to_address, amount |-> amount,
     auth |-> auth, result |-> "pending", depth |-> Depth,
     callee |-> None, calls |-> 0, value |-> 0, dirty |-> FALSE,
     pre |-> [storage |-> storage, notifications |-> RunningNotifications]]

\* the record of an invocation of _deploy(data, update) on the storage s, of
\* a contract with the given HOLDERS table and continue_minting value
DeployCall(update, s, holders, continue_minting) ==
    [op |-> "_deploy", from |-> None, to |-> None, amount |-> 0,
     auth |-> TRUE, result |-> "none", depth |-> 0,
     callee |-> None, calls |-> 0, value |-> 0, dirty |-> FALSE,
     update |-> update,
     holders |-> holders, continue_minting |-> continue_minting,
     pre |-> [storage |-> s, notifications |-> <<>>]]

\* the state the creation of the contract leaves: _deploy(data, False) on the
\* empty storage
Created(holders, continue_minting) ==
    LET d == _deploy(<<>>, holders, continue_minting)
    IN /\ storage = d.storage
       /\ notifications = d.events
       /\ stack = <<>>
       /\ snapshot = <<>>
       /\ script_container = NoTransaction
       /\ last = DeployCall(FALSE, <<>>, holders, continue_minting)

Init ==
    \E holders \in HolderTables, continue_minting \in BOOLEAN :
        /\ Created(holders, continue_minting)
        /\ contract = [deploys |-> 1]

\* calling_script_hash: the entry script or a calling contract; inside a
\* payment callback, the contract whose onNEP17Payment is running
CurrentCallers == IF stack = <<>> THEN Callers ELSE {stack[Depth].call.to}
\* tx.sender of script_container: fixed for the invocation at its first read
CurrentSenders ==
    IF script_container = NoTransaction THEN Addresses ELSE {script_container.sender}
\* arguments of a call: any at the top level, well formed from a callback
CurrentAddresses == IF stack = <<>> THEN AnyAddress ELSE Addresses
CurrentAmounts == IF stack = <<>> THEN Amounts ELSE 0..MaxAmount
\* a callback that calls the token counts the call in its frame
CanCall == IF stack = <<>> THEN TRUE ELSE stack[Depth].calls < MaxCalls
Reentered == IF stack = <<>> THEN stack ELSE [stack EXCEPT ![Depth].calls = @ + 1]

\* a failed assert or abort() faults the invocation: the host discards every
\* write and notification made since the invocation started
Started == IF stack = <<>> THEN storage ELSE snapshot
\* a fault that leaves the writes made so far in the storage
Fault_keep_writes(call) ==
    /\ storage' = storage
    /\ notifications' = <<>>
    /\ stack' = <<>>
    /\ snapshot' = Started
    /\ script_container' = NoTransaction
    /\ last' = [call EXCEPT !.result = "abort"]
    /\ UNCHANGED contract

Fault(call) ==
    /\ storage' = Started
    /\ notifications' = <<>>
    /\ stack' = <<>>
    /\ snapshot' = Started
    /\ script_container' = NoTransaction
    /\ last' = [call EXCEPT !.result = "abort"]
    /\ UNCHANGED contract

\* the operation ran to its return without calling a contract
Return(call, out, tx) ==
    /\ storage' = out.storage
    /\ notifications' = RunningNotifications \o out.events
    /\ stack' = Reentered
    /\ script_container' = (IF stack = <<>> THEN NoTransaction ELSE tx)
    /\ snapshot' = Started
    /\ last' = [call EXCEPT !.result = out.result]
    /\ UNCHANGED contract

\* post_transfer calls onNEP17Payment of the recipient contract
CallContract(call, out, tx) ==
    /\ Depth < MaxDepth
    /\ storage' = out.storage
    /\ notifications' = RunningNotifications \o out.events
    /\ stack' = Append(Reentered, [call |-> [call EXCEPT !.result = out.result],
                                   calls |-> 0])
    /\ snapshot' = Started
    /\ script_container' = tx
    /\ last' = [call EXCEPT !.result = "hook"]
    /\ UNCHANGED contract

\* what the call had done when it stopped: a write or a notification
Dirty(out) == out.storage # storage \/ out.events # <<>>

Run(call, out, tx) ==
    /\ CanCall
    /\ IF out.result = "abort" THEN Fault([call EXCEPT !.dirty = Dirty(out)])
       ELSE IF out.callee = None THEN Return(call, out, tx)
       ELSE IF out.callee = Self /\ onNEP17Payment = "abort"
            THEN Fault([call EXCEPT !.callee = out.callee, !.dirty = Dirty(out)])
       ELSE CallContract([call EXCEPT !.callee = out.callee], out, tx)

Transfer ==
    \E from_address \in CurrentAddresses, to_address \in CurrentAddresses,
       amount \in CurrentAmounts, caller \in CurrentCallers, signed \in BOOLEAN :
        Run(Call("transfer", from_address, to_address, amount,
                 check_witness(from_address, caller, signed)),
            transfer(storage, from_address, to_address, amount, caller, signed),
            script_container)

Mint ==
    \E account \in CurrentAddresses, amount \in CurrentAmounts,
       caller \in CurrentCallers, signed \in BOOLEAN :
        /\ totalSupply(storage) + amount <= MaxSupply
        /\ Run(Call("mint", None, account, amount, check_witness(OWNER, caller, signed)),
               mint(storage, account, amount, caller, signed),
               script_container)

Burn ==
    \E amount \in CurrentAmounts, sender \in CurrentSenders :
        Run(Call("burn", sender, None, amount, TRUE),
            burn(storage, amount, sender),
            IF amount > 0 THEN [sender |-> sender] ELSE script_container)

FinishMinting ==
    \E caller \in CurrentCallers, signed \in BOOLEAN :
        Run(Call("finishMinting", None, None, 0, check_witness(OWNER, caller, signed)),
            finishMinting(storage),
            script_container)

\* the queries: they return a value and write nothing; balanceOf asserts the
\* length of its argument
balanceOf_call(s, account) ==
    IF len(account) # 20 THEN Outcome("abort", s, <<>>, None)
    ELSE Outcome("value", s, <<>>, None)

BalanceOf ==
    \E account \in CurrentAddresses :
        Run([Call("balanceOf", None, account, 0, TRUE)
                 EXCEPT !.value = IF len(account) = 20 THEN balanceOf(storage, account) ELSE 0],
            balanceOf_call(storage, account),
            script_container)

TotalSupply ==
    Run([Call("totalSupply", None, None, 0, TRUE) EXCEPT !.value = totalSupply(storage)],
        Outcome("value", storage, <<>>, None),
        script_container)

\* the recipient's onNEP17Payment returns: the suspended operation resumes
\* after post_transfer and returns
HookReturn ==
    /\ stack # <<>>
    /\ stack' = SubSeq(stack, 1, Depth - 1)
    /\ last' = [stack[Depth].call EXCEPT !.calls = stack[Depth].calls]
    /\ script_container' = (IF Depth = 1 THEN NoTransaction ELSE script_container)
    /\ UNCHANGED <<storage, notifications, snapshot, contract>>

\* the recipient's onNEP17Payment aborts
HookAbort ==
    /\ stack # <<>>
    /\ Fault([stack[Depth].call EXCEPT !.calls = stack[Depth].calls,
                                       !.dirty = (storage # snapshot \/ notifications # <<>>)])

Next ==
    \/ Transfer
    \/ Mint
    \/ Burn
    \/ FinishMinting
    \/ BalanceOf
    \/ TotalSupply
    \/ HookReturn
    \/ HookAbort

Spec == Init /\ [][Next]_vars

\* The contract with its template values kept, to follow a later invocation
\* of _deploy.
InitRedeploy ==
    \E holders \in HolderTables, continue_minting \in BOOLEAN :
        /\ Created(holders, continue_minting)
        /\ contract = [deploys |-> 1, holders |-> holders,
                       continue_minting |-> continue_minting]

\* The host invokes _deploy again, as it does with update = True when a
\* contract is updated: the method runs on the storage as it is, with the
\* contract's HOLDERS table and continue_minting value, whatever update is.
Redeploy ==
    /\ stack = <<>>
    /\ contract.deploys < MaxDeploys
    /\ \E update \in BOOLEAN :
           LET d == _deploy(storage, contract.holders, contract.continue_minting)
           IN /\ storage' = d.storage
              /\ notifications' = d.events
              /\ last' = DeployCall(update, storage, contract.holders,
                                    contract.continue_minting)
    /\ stack' = <<>>
    /\ snapshot' = storage
    /\ script_container' = NoTransaction
    /\ contract' = [contract EXCEPT !.deploys = @ + 1]

\* no invocation has run since the creation of the contract
Fresh == stack = <<>> /\ snapshot = <<>>

\* one invocation of the contract after its creation, with the payment
\* callback it may run, and then a second invocation of _deploy
NextRedeploy ==
    \/ Fresh /\ Transfer
    \/ Fresh /\ Mint
    \/ Fresh /\ Burn
    \/ Fresh /\ FinishMinting
    \/ Fresh /\ BalanceOf
    \/ Fresh /\ TotalSupply
    \/ contract.deploys = 1 /\ HookReturn
    \/ contract.deploys = 1 /\ HookAbort
    \/ Redeploy

SpecRedeploy == InitRedeploy /\ [][NextRedeploy]_vars

\* ----------------------------------------------------------------- queries
Balances(s) == [a \in Addresses |-> balanceOf(s, a)]
RECURSIVE SumOver(_, _)
SumOver(f, S) ==
    IF S = {} THEN 0
    ELSE LET a == CHOOSE x \in S : TRUE IN f[a] + SumOver(f, S \ {a})
StoredAccounts(s) == DOMAIN s \cap Addresses
SumOfStoredBalances(s) == SumOver([a \in StoredAccounts(s) |-> to_int(s[a])], StoredAccounts(s))
Gate(s) == to_bool(get(s, CONTINUE_MINTING))

TypeOK ==
    /\ DOMAIN storage \subseteq Addresses \cup {TOTAL_SUPPLY, CONTINUE_MINTING}
    /\ Depth <= MaxDepth
    /\ (stack = <<>>) => (script_container = NoTransaction)

\* ------------------------------------------------------------------ claims
WellFormedTransfer ==
    /\ last.op = "transfer"
    /\ last.from \in Addresses
    /\ last.to \in Addresses
    /\ last.amount >= 0
\* the state holds exactly the writes of the last call: it is suspended in the
\* payment callback it called, or it returned and no callback of it called
\* the token
OwnWrites ==
    \/ last.result = "hook"
    \/ last.result \in {"true", "none"} /\ last.calls = 0
Emitted(event) == notifications = Append(last.pre.notifications, event)

\* C1: the sum of all stored account balances equals totalSupply() in every
\* state reached from _deploy by transfer, mint, burn and finishMinting calls,
\* whatever their outcome, also while a payment callback is running.
C1_Conservation == SumOfStoredBalances(storage) = totalSupply(storage)

C1_Witness ==
    /\ last.op = "burn"
    /\ last.result = "none"
    /\ last.amount > 0
    /\ totalSupply(storage) > 0
    /\ totalSupply(last.pre.storage) > totalSupply(snapshot)

\* C2: every account entry present in storage holds a strictly positive
\* balance.
C2_SparseStorage == \A a \in StoredAccounts(storage) : to_int(storage[a]) > 0

\* C3: a transfer with from # to and amount > 0 that passes its checks has
\* written exactly this: from is lower by amount, to is higher by amount, every
\* other balance, the total supply and the minting gate are as before the call.
C3_TransferEffect ==
    (WellFormedTransfer /\ OwnWrites /\ last.from # last.to /\ last.amount > 0) =>
        /\ Balances(storage) =
               [Balances(last.pre.storage) EXCEPT ![last.from] = @ - last.amount,
                                                  ![last.to] = @ + last.amount]
        /\ totalSupply(storage) = totalSupply(last.pre.storage)
        /\ get(storage, CONTINUE_MINTING) = get(last.pre.storage, CONTINUE_MINTING)

C3_Witness ==
    /\ WellFormedTransfer
    /\ last.result = "true"
    /\ last.callee = "dapp"
    /\ last.calls = 0
    /\ last.from # last.to
    /\ last.amount > 0
    /\ \E a \in Addresses \ {last.from, last.to} : balanceOf(storage, a) > 0

\* C4: a transfer with well-formed arguments returns false exactly when the
\* balance of from is below amount or from is not the caller and the witness
\* check denies it; then storage and notifications are as before the call and
\* no payment callback was called.
C4_TransferFalse ==
    WellFormedTransfer =>
        /\ (last.result = "false") <=>
               (balanceOf(last.pre.storage, last.from) < last.amount \/ ~last.auth)
        /\ last.result = "false" =>
               /\ storage = last.pre.storage
               /\ notifications = last.pre.notifications
               /\ last.callee = None
               /\ Depth = last.depth

C4_Witness ==
    /\ WellFormedTransfer
    /\ last.result = "false"
    /\ ~last.auth
    /\ last.amount > 0
    /\ balanceOf(last.pre.storage, last.from) >= last.amount

\* the contract whose onNEP17Payment post_transfer calls for a recipient
HookOf(to_address) == IF to_address \in Contracts THEN to_address ELSE None

SelfTransfer ==
    /\ WellFormedTransfer
    /\ last.from = last.to
    /\ balanceOf(last.pre.storage, last.from) >= last.amount
SelfTransferDone ==
    /\ storage = last.pre.storage
    /\ Emitted(<<last.from, last.from, last.amount>>)
    /\ last.callee = HookOf(last.from)

\* C5 as claimed: transfer(A, A, amt, d) with balanceOf(A) >= amt returns
\* true, leaves the stored entry of A unchanged, emits (A, A, amt) and calls
\* the payment callback if A is a contract.
C5_Original ==
    SelfTransfer =>
        /\ last.result \in {"true", "hook"}
        /\ OwnWrites => SelfTransferDone

\* C5 as amended: transfer(A, A, amt, d) with balanceOf(A) >= amt that passes
\* the authorization (A is the caller or its witness is confirmed) leaves the
\* stored entry of A unchanged, emits (A, A, amt) and calls the payment
\* callback if A is a contract; it returns true unless that callback aborts,
\* as the token's own does.
C5_SelfTransfer ==
    (SelfTransfer /\ last.auth) =>
        /\ last.result \in {"true", "hook", "abort"}
        /\ last.result = "abort" => last.callee # None
        /\ last.from = Self => last.result = "abort"
        /\ last.from \notin Contracts => last.result = "true"
        /\ OwnWrites => SelfTransferDone

C5_Witness ==
    /\ SelfTransfer
    /\ last.from = "dapp"
    /\ last.amount > 0
    /\ last.result = "true"
    /\ last.callee = "dapp"
    /\ last.calls = 0
    /\ storage = last.pre.storage

ZeroTransfer == WellFormedTransfer /\ last.amount = 0
ZeroTransferDone ==
    /\ storage = last.pre.storage
    /\ Emitted(<<last.from, last.to, 0>>)

\* C6 as claimed: transfer(A, B, 0, d) returns true, changes no balance and
\* emits (A, B, 0).
C6_Original ==
    ZeroTransfer =>
        /\ last.result \in {"true", "hook"}
        /\ OwnWrites => ZeroTransferDone

\* C6 as amended: transfer(A, B, 0, d) that passes the authorization (A is the
\* caller or its witness is confirmed) changes no stored balance and emits
\* (A, B, 0); it returns true unless the payment callback of B aborts, as the
\* token's own does.
C6_ZeroTransfer ==
    (ZeroTransfer /\ last.auth) =>
        /\ last.result \in {"true", "hook", "abort"}
        /\ last.result = "abort" => last.callee # None
        /\ last.to = Self => last.result = "abort"
        /\ last.to \notin Contracts => last.result = "true"
        /\ OwnWrites => ZeroTransferDone

C6_Witness ==
    /\ ZeroTransfer
    /\ last.from # last.to
    /\ last.result = "true"
    /\ DOMAIN last.pre.storage \cap {last.from, last.to} = {}
    /\ storage = last.pre.storage
    /\ notifications = << <<last.from, last.to, 0>> >>

MintCall == last.op = "mint" /\ last.to \in Addresses
MintAllowed == last.auth /\ Gate(last.pre.storage) /\ last.amount > 0
MintDone ==
    /\ totalSupply(storage) = totalSupply(last.pre.storage) + last.amount
    /\ Balances(storage) = [Balances(last.pre.storage) EXCEPT ![last.to] = @ + last.amount]
\* a call that faulted before writing: the storage is the one the invocation
\* started from, which at the top level is the one the call started from
NothingChanged ==
    /\ storage = (IF last.result = "abort" THEN snapshot ELSE last.pre.storage)
    /\ last.depth = 0 => storage = last.pre.storage
    /\ last.callee = None
MintRejected ==
    /\ ~last.auth => (last.result = "abort" /\ NothingChanged)
    /\ last.amount = 0 => (last.result \in {"none", "abort"} /\ NothingChanged)

\* C7 as claimed: mint(X, amount) aborts without the Owner's witness, for every
\* amount; with the witness, the gate open and amount > 0 it increases
\* totalSupply() and balanceOf(X) by amount and no other balance; with amount
\* 0 it changes nothing.
C7_Original ==
    MintCall =>
        /\ MintRejected
        /\ MintAllowed =>
               /\ last.result \in {"none", "hook"}
               /\ OwnWrites => MintDone

\* C7 as amended: as claimed, but with the witness, the gate open and
\* amount > 0 the mint increases totalSupply() and balanceOf(X) by amount only
\* if the payment callback of X does not abort; it aborts when X is the
\* token's own address.
C7_Mint ==
    MintCall =>
        /\ MintRejected
        /\ MintAllowed =>
               /\ last.result \in {"none", "hook", "abort"}
               /\ last.result = "abort" => last.callee # None
               /\ last.to = Self => last.result = "abort"
               /\ last.to \notin Contracts => last.result = "none"
               /\ OwnWrites => MintDone

C7_Witness ==
    /\ MintCall
    /\ MintAllowed
    /\ last.result = "none"
    /\ last.callee = "dapp"
    /\ last.calls = 0
    /\ MintDone
    /\ \E a \in Addresses \ {last.to} : balanceOf(storage, a) > 0

GateCalls ==
    /\ last.op = "finishMinting" =>
           /\ (last.result = "true") <=> Gate(last.pre.storage)
           /\ last.result = "true" => ~Gate(storage)
           /\ last.result = "false" => storage = last.pre.storage
    /\ (last.op = "mint" /\ ~Gate(last.pre.storage)) =>
           (last.result = "abort" /\ NothingChanged)
\* Started is the storage the running invocation started from: the storage
\* itself between invocations
GateStaysClosed ==
    ~Gate(Started) =>
        /\ ~Gate(storage')
        /\ totalSupply(storage') <= totalSupply(Started)

\* C8: finishMinting() returns true exactly when the gate is open and then
\* closes it, and returns false otherwise; a mint called with the gate closed
\* aborts, even with the Owner's witness; once an invocation starts with the
\* gate closed, the gate is closed and the total supply no higher in every
\* later state.
C8_OneWayGate == [](GateCalls) /\ [][GateStaysClosed]_vars

C8_Witness ==
    /\ last.op = "finishMinting"
    /\ last.result = "true"
    /\ Gate(last.pre.storage)
    /\ ~Gate(storage)
    /\ totalSupply(storage) = MaxSupply

BurnCall == last.op = "burn"
BurnDone ==
    /\ last.result = "none"
    /\ totalSupply(storage) = totalSupply(last.pre.storage) - last.amount
    /\ Balances(storage) = [Balances(last.pre.storage) EXCEPT ![last.from] = @ - last.amount]
    /\ StoredAccounts(storage) =
           IF balanceOf(last.pre.storage, last.from) = last.amount
           THEN StoredAccounts(last.pre.storage) \ {last.from}
           ELSE StoredAccounts(last.pre.storage) \cup {last.from}

\* C9: burn(amount) with amount > 0 and the balance of the transaction's sender
\* at least amount lowers the total supply and that balance by amount, deletes
\* the sender's entry when the balance is exhausted and leaves every other
\* balance unchanged; burn of more than the balance aborts and changes nothing.
C9_Burn ==
    BurnCall =>
        /\ (last.amount > 0 /\ balanceOf(last.pre.storage, last.from) >= last.amount)
               => BurnDone
        /\ last.amount > balanceOf(last.pre.storage, last.from) =>
               (last.result = "abort" /\ NothingChanged)

C9_Witness ==
    /\ BurnCall
    /\ last.amount > 0
    /\ balanceOf(last.pre.storage, last.from) = last.amount
    /\ BurnDone
    /\ last.from \notin DOMAIN storage
    /\ \E a \in Addresses \ {last.from} : balanceOf(storage, a) > 0

\* a mint(X, n) with n > 0 returned, its callback having made no call, and the
\* next step is a burn of n by sender X
MintThenBurn ==
    /\ MintCall
    /\ last.result = "none"
    /\ last.amount > 0
    /\ last.calls = 0
    /\ last.depth = 0
    /\ stack = <<>>
    /\ last'.op = "burn"
    /\ last'.from = last.to
    /\ last'.amount = last.amount
    /\ last'.result = "none"
RoundTripBalances ==
    MintThenBurn =>
        /\ totalSupply(storage') = totalSupply(last.pre.storage)
        /\ Balances(storage') = Balances(last.pre.storage)
RoundTripEntry ==
    MintThenBurn => ((last.to \in DOMAIN storage') <=> (last.to \in DOMAIN last.pre.storage))

\* C10: mint(X, n) followed by a burn of n from X restores totalSupply(),
\* balanceOf(X) and the presence or absence of the storage entry of X to their
\* values before the mint, and leaves all other balances unchanged.
C10_RoundTrip == [][RoundTripBalances /\ RoundTripEntry]_vars

\* the part of C10 that holds: the round trip restores every balance and the
\* total supply
C10_RoundTripBalances == [][RoundTripBalances]_vars

\* the genesis table as a function of the addresses, and its total
GenesisAmount(holders) ==
    [a \in Addresses |->
        IF \E i \in 1..Len(holders) : holders[i][1] = a
        THEN holders[CHOOSE i \in 1..Len(holders) : holders[i][1] = a][2]
        ELSE 0]
GenesisEvents(holders) == [i \in 1..Len(holders) |-> <<None, holders[i][1], holders[i][2]>>]
\* the state is the one the creation of the contract left
AfterCreation == last.op = "_deploy" /\ last.pre.storage = <<>>

\* C11: immediately after _deploy the balance of every address is its amount
\* in the genesis table (0 if it is not a holder), totalSupply() is the sum of
\* the genesis amounts, the notifications are exactly one (None, h, amount) per
\* holder and the minting gate holds the configured value.
C11_Genesis ==
    AfterCreation =>
        /\ Balances(storage) = GenesisAmount(last.holders)
        /\ totalSupply(storage) = SumOver(GenesisAmount(last.holders), Addresses)
        /\ notifications = GenesisEvents(last.holders)
        /\ Gate(storage) = last.continue_minting

C11_Witness ==
    /\ AfterCreation
    /\ Len(last.holders) = MaxHolders
    /\ totalSupply(storage) = 2
    /\ ~Gate(storage)
    /\ Len(notifications) = MaxHolders

FatalCall ==
    \/ last.op = "transfer" /\ (len(last.from) # 20 \/ len(last.to) # 20 \/ last.amount < 0)
    \/ last.op = "balanceOf" /\ len(last.to) # 20
    \/ last.op = "mint" /\ (last.amount < 0 \/ ~last.auth \/ ~Gate(last.pre.storage))
    \/ last.op = "burn" /\ (last.amount < 0 \/ last.amount > balanceOf(last.pre.storage, last.from))

\* C13: a transfer or balanceOf with an address that is not 20 bytes long, a
\* transfer, mint or burn with a negative amount, a mint without the Owner's
\* witness or with the gate closed and a burn of more than the sender's
\* balance abort, having made no write and no notification; the invocation
\* leaves no notification and the storage it started from, which for a call
\* from outside a payment callback is the storage before the call.
C13_FatalAtomic ==
    FatalCall =>
        /\ last.result = "abort"
        /\ ~last.dirty
        /\ NothingChanged
        /\ notifications = <<>>
        /\ stack = <<>>

C13_Witness ==
    /\ last.op = "burn"
    /\ last.depth = 0
    /\ last.amount = 2
    /\ balanceOf(last.pre.storage, last.from) = 1
    /\ last.result = "abort"
    /\ storage = last.pre.storage

\* the balances and the total supply a transfer or mint that reaches its
\* payment callback has written by then, from the state it started in
WrittenBalances(call) ==
    IF call.op = "transfer" /\ call.from # call.to /\ call.amount # 0
    THEN [Balances(call.pre.storage) EXCEPT ![call.from] = @ - call.amount,
                                            ![call.to] = @ + call.amount]
    ELSE IF call.op = "mint"
    THEN [Balances(call.pre.storage) EXCEPT ![call.to] = @ + call.amount]
    ELSE Balances(call.pre.storage)
WrittenSupply(call) ==
    IF call.op = "mint" THEN totalSupply(call.pre.storage) + call.amount
    ELSE totalSupply(call.pre.storage)
\* a payment callback is running, or the last call was made from one or
\* resumed after one that called the token
Reentrancy == stack # <<>> \/ last.depth > 0 \/ last.calls > 0
\* the last call is the first one a running payment callback made, and it
\* returned
FirstReentrantCall ==
    /\ stack # <<>>
    /\ last.depth = Depth
    /\ last.result \in {"true", "false", "none", "value"}
    /\ stack[Depth].calls = 1
\* the payment callback runs on the writes of the operation that called it,
\* and the first call it makes starts from them and, if a query, returns them
HookAfterWrites ==
    /\ last.result = "hook" =>
           /\ last.op \in {"transfer", "mint"}
           /\ Balances(storage) = WrittenBalances(last)
           /\ totalSupply(storage) = WrittenSupply(last)
    /\ FirstReentrantCall =>
           LET outer == stack[Depth].call
           IN /\ Balances(last.pre.storage) = WrittenBalances(outer)
              /\ totalSupply(last.pre.storage) = WrittenSupply(outer)
              /\ last.op = "balanceOf" => last.value = WrittenBalances(outer)[last.to]
              /\ last.op = "totalSupply" => last.value = WrittenSupply(outer)

\* C14: the payment callback of a transfer or mint runs after all the writes
\* of that operation, so the sum of the stored balances equals the total
\* supply whenever a callback runs, a transfer, mint, burn, balanceOf or
\* totalSupply the callback calls observes the debit and credit of the outer
\* call, and conservation and strictly positive stored balances hold during
\* and after any nesting of such calls.
C14_Reentrancy ==
    Reentrancy =>
        /\ HookAfterWrites
        /\ SumOfStoredBalances(storage) = totalSupply(storage)
        /\ \A a \in StoredAccounts(storage) : to_int(storage[a]) > 0

\* the part of C14 that holds: the ordering of writes and callback, what a
\* reentrant call observes, and conservation
C14_HookAfterWrites ==
    Reentrancy =>
        /\ HookAfterWrites
        /\ SumOfStoredBalances(storage) = totalSupply(storage)

\* a balanceOf called from the payment callback of a transfer returned the
\* credited balance
C14_Observed ==
    /\ FirstReentrantCall
    /\ last.op = "balanceOf"
    /\ stack[Depth].call.op = "transfer"
    /\ stack[Depth].call.amount > 0
    /\ stack[Depth].call.from # stack[Depth].call.to
    /\ last.to = stack[Depth].call.to
    /\ last.value = balanceOf(stack[Depth].call.pre.storage, last.to) + stack[Depth].call.amount

\* a transfer or mint faulted in the payment callback it called
HookAborted ==
    /\ last.op \in {"transfer", "mint"}
    /\ last.result = "abort"
    /\ last.callee # None

\* C15: when the onNEP17Payment of the recipient contract aborts during a
\* transfer or mint, the operation aborts with it: the storage is the one the
\* invocation started from (the one before the operation, for an operation
\* called from outside a callback) and no notification is left, whatever the
\* operation and the calls made from inside the callback had written.
C15_HookAbort ==
    HookAborted =>
        /\ last.dirty
        /\ storage = snapshot
        /\ last.depth = 0 => storage = last.pre.storage
        /\ notifications = <<>>
        /\ stack = <<>>

C15_Witness ==
    /\ HookAborted
    /\ last.op = "transfer"
    /\ last.callee = "dapp"
    /\ last.calls = 1
    /\ last.amount > 0
    /\ last.from # last.to
    /\ balanceOf(storage, last.from) = last.amount
    /\ balanceOf(storage, last.to) = 0

\* the notification of a transfer, mint or burn
EventOf(call) ==
    IF call.op = "transfer" THEN <<call.from, call.to, call.amount>>
    ELSE IF call.op = "mint" THEN <<None, call.to, call.amount>>
    ELSE <<call.from, None, call.amount>>
\* the notifications since the call started begin with the call's own
EmittedFirst(call) ==
    /\ Len(notifications) > Len(call.pre.notifications)
    /\ SubSeq(notifications, 1, Len(call.pre.notifications) + 1) =
           Append(call.pre.notifications, EventOf(call))
\* the call left no notification of its own: the notifications are those
\* before the call, or none after a fault
Silent == notifications = (IF last.result = "abort" THEN <<>> ELSE last.pre.notifications)
\* every operation suspended in a payment callback notified before calling it,
\* on the storage it had written
NotifiedBeforeHook ==
    /\ \A i \in 1..Depth : EmittedFirst(stack[i].call)
    /\ last.result = "hook" =>
           /\ Emitted(EventOf(last))
           /\ Balances(storage) = WrittenBalances(last)
SilentCalls ==
    /\ (last.op = "transfer" /\ last.result = "false") => Silent
    /\ (last.op \in {"mint", "burn"} /\ last.amount = 0) => Silent
Notifies(call) ==
    \/ call.op = "transfer" /\ call.result \in {"true", "hook"}
    \/ call.op \in {"mint", "burn"} /\ call.amount > 0

\* C16 as claimed: every transfer that returns true, every mint with
\* amount > 0 and every burn with amount > 0 emits exactly one notification,
\* (from, to, amount), (None, account, amount) and (account, None, amount),
\* after its writes and before the payment callback, so that it precedes the
\* notifications of the calls the callback makes; a transfer returning false,
\* a mint of 0 and a burn of 0 emit none.
C16_Original ==
    /\ Notifies(last) =>
           /\ EmittedFirst(last)
           /\ OwnWrites => Emitted(EventOf(last))
    /\ NotifiedBeforeHook
    /\ SilentCalls

\* C16 as amended: as claimed, for every mint and every burn with amount > 0
\* that does not abort; a call that aborts leaves no notification.
C16_Events ==
    /\ (Notifies(last) /\ last.result # "abort") =>
           /\ EmittedFirst(last)
           /\ OwnWrites => Emitted(EventOf(last))
    /\ NotifiedBeforeHook
    /\ SilentCalls
    /\ last.result = "abort" => notifications = <<>>

C16_Witness ==
    /\ last.op = "transfer"
    /\ last.result = "true"
    /\ last.calls = 1
    /\ last.from = last.to
    /\ Len(notifications) = 2
    /\ notifications[1] = <<last.from, last.to, last.amount>>
    /\ notifications[2][2] = None

\* C17: finishMinting() called while the gate is open closes it and returns
\* true, whoever the caller is and with or without the Owner's witness; no
\* finishMinting() changes a balance or the total supply, emits a notification
\* or calls a payment callback.
C17_FinishMintingOpen ==
    last.op = "finishMinting" =>
        /\ Gate(last.pre.storage) => (last.result = "true" /\ ~Gate(storage))
        /\ last.result \in {"true", "false"}
        /\ Balances(storage) = Balances(last.pre.storage)
        /\ totalSupply(storage) = totalSupply(last.pre.storage)
        /\ StoredAccounts(storage) = StoredAccounts(last.pre.storage)
        /\ notifications = last.pre.notifications
        /\ last.callee = None

C17_Witness ==
    /\ last.op = "finishMinting"
    /\ ~last.auth
    /\ last.depth = 0
    /\ Gate(last.pre.storage)
    /\ last.result = "true"
    /\ ~Gate(storage)
    /\ balanceOf(storage, OWNER) > 0

\* the step lowers the balance of a
Debited(a) == balanceOf(storage', a) < balanceOf(storage, a)
\* the step is a transfer from a that passed the authorization, or a burn in
\* a transaction whose sender is a
AuthorizedDebit(a) ==
    \/ /\ last'.op = "transfer"
       /\ last'.from = a
       /\ last'.auth
       /\ last'.result \in {"true", "hook"}
    \/ /\ last'.op = "burn"
       /\ last'.from = a
       /\ last'.result = "none"
       /\ script_container' \in {NoTransaction, [sender |-> a]}
\* the step is a fault: the storage is again the one the invocation started
\* from, so that the invocation as a whole debits nobody
RolledBack == last'.result = "abort" /\ storage' = Started
DebitSteps == \A a \in Addresses : Debited(a) => (AuthorizedDebit(a) \/ RolledBack)

\* C18: the balance of an account A is lowered only by a transfer with
\* from = A in which A is the caller or A's witness is confirmed, or by a burn
\* in a transaction whose sender is A, whoever calls it; a step that lowers a
\* balance otherwise is a fault restoring the storage the invocation started
\* from.
C18_DebitAuthorization == [][DebitSteps]_vars

C18_Witness ==
    /\ last.op = "burn"
    /\ last.depth = 1
    /\ last.from = OWNER
    /\ last.result = "none"
    /\ stack[Depth].call.to = "dapp"
    /\ stack[Depth].call.op = "mint"
    /\ balanceOf(storage, OWNER) < balanceOf(last.pre.storage, OWNER)

\* a transfer to the token's own address, or a mint of a positive amount to it
ToSelf ==
    \/ last.op = "transfer" /\ last.to = Self
    \/ last.op = "mint" /\ last.to = Self /\ last.amount > 0
\* the balance of the token's own address is not above the one the running
\* (or last) invocation started from
OwnBalanceNotRaised ==
    snapshot # <<>> => balanceOf(storage, Self) <= balanceOf(snapshot, Self)

\* C19 as claimed: every transfer to the token's own address and every mint
\* of a positive amount to it aborts, so the balance of the token's own
\* address never increases after _deploy.
C19_Original ==
    /\ ToSelf => last.result = "abort"
    /\ OwnBalanceNotRaised

\* C19 as amended: no transfer to the token's own address returns true and
\* every mint of a positive amount to it aborts: a transfer to it that passes
\* the argument, balance and authorization checks aborts in the token's own
\* onNEP17Payment, one that fails the balance or authorization check returns
\* false; so the balance of the token's own address never increases after
\* _deploy.
C19_OwnBalance ==
    /\ ToSelf =>
           /\ last.result \in {"abort", "false"}
           /\ last.op = "mint" => last.result = "abort"
           /\ last.result = "false" =>
                  (balanceOf(last.pre.storage, last.from) < last.amount \/ ~last.auth)
           /\ (/\ last.op = "transfer"
               /\ len(last.from) = 20
               /\ last.amount >= 0
               /\ balanceOf(last.pre.storage, last.from) >= last.amount
               /\ last.auth)
                  => (last.result = "abort" /\ last.callee = Self /\ last.dirty)
    /\ OwnBalanceNotRaised

C19_Witness ==
    /\ last.op = "transfer"
    /\ last.to = Self
    /\ last.from = OWNER
    /\ last.amount > 0
    /\ last.auth
    /\ balanceOf(last.pre.storage, OWNER) >= last.amount
    /\ last.result = "abort"
    /\ last.callee = Self
    /\ last.dirty
    /\ storage = last.pre.storage

====
